---- MODULE Spec2Model ----
(***************************************************************************)
(* Quicksave slot subsystem of savestates/savestates.c: slot path          *)
(* resolution, the sticky directory existence cache, the slot-name         *)
(* validator, the directory scanner, the pause/save-or-load/unpause        *)
(* wrappers and the screen thumbnail extractor.                            *)
(*                                                                         *)
(* Every C function is an operator that computes, from the current state   *)
(* and the outcomes of the system calls it makes (its "io" argument), the  *)
(* record of what the call did: its return value, the sequence of calls to *)
(* collaborators it made (trace) and the new values of what it assigned.   *)
(* Each public entry point is one action that applies its operator.        *)
(***************************************************************************)
EXTENDS Integers, Sequences, FiniteSets, TLC

VARIABLES
  last_filename,               \* fuse.c: name of the last opened program, or NULL
  cfgdir,                      \* result of compat_get_config_path(), or NULL
  od_quicksave_per_machine,    \* settings_current.od_quicksave_per_machine
  od_quicksave_slot,           \* settings_current.od_quicksave_slot
  od_quicksave_format,         \* settings_current.od_quicksave_format
  dirs,                        \* the directories that exist on disk
  files,                       \* the files on disk: path -> content
  last_check_directory,        \* static char* last_check_directory
  last_check_directory_result, \* static int last_check_directory_result
  fuse_emulation_paused,       \* nesting depth of fuse_emulation_pause()
  call,                        \* what the last call of the module did
  screen,                      \* utils_file handed back by the thumbnail extractor
  arg,                         \* pending input of a pure function under test
  trueFor                      \* history: directory the cache last answered true for

vars == << last_filename, cfgdir, od_quicksave_per_machine, od_quicksave_slot,
           od_quicksave_format, dirs, files, last_check_directory,
           last_check_directory_result, fuse_emulation_paused, call,
           screen, arg, trueFor >>

(***************************************************************************)
(* Bounds of the model.                                                    *)
(***************************************************************************)
MaxSlot == 1          \* slots 0..MaxSlot are used by the main specification
MaxNameLen == 6       \* candidate names of the validator have at most this length
MaxEntries == 3       \* directory listings of the scanner have at most this length
MaxFiles == 2         \* the disk holds at most this many files
MaxSlotNumber == 99   \* slot numbers handed to the resolver range over 0..MaxSlotNumber
PATH_MAX == 52        \* <limits.h>: longest path plus one, on the scale of the names used

(***************************************************************************)
(* C strings are sequences of one-character strings; NULL is the empty     *)
(* sequence (the module never distinguishes "" from NULL in what it is     *)
(* handed here).                                                           *)
(***************************************************************************)
NULL == << >>

Digits == << "0", "1", "2", "3", "4", "5", "6", "7", "8", "9" >>

isdigit(c) == \E i \in 1..Len(Digits) : Digits[i] = c

Min(a, b) == IF a < b THEN a ELSE b

\* Index of the last occurrence of c in s, 0 when there is none (strrchr).
strrchr(s, c) ==
  LET hits == { i \in 1..Len(s) : s[i] = c }
  IN  IF hits = {} THEN 0 ELSE CHOOSE i \in hits : \A j \in hits : j <= i

\* strncmp(a, b, n) = 0: a and b agree on their first n characters, the
\* terminating NUL included when a string is shorter than n.
strncmp_equal(a, b, n) ==
  SubSeq(a, 1, Min(n, Len(a))) = SubSeq(b, 1, Min(n, Len(b)))

\* utils_last_filename( name, without_extension ): the component after the
\* last directory separator, optionally cut at its last '.'.
utils_last_filename(name, without_extension) ==
  LET sep  == strrchr(name, "/")
      base == SubSeq(name, sep + 1, Len(name))
      dot  == strrchr(base, ".")
  IN  IF name = NULL THEN NULL
      ELSE IF without_extension /\ dot > 0 THEN SubSeq(base, 1, dot - 1)
      ELSE base

\* atoi: the value of the leading decimal digits.
RECURSIVE atoi_from(_, _, _)
atoi_from(s, i, acc) ==
  IF i > Len(s) \/ ~isdigit(s[i]) THEN acc
  ELSE atoi_from(s, i + 1,
         10 * acc + (CHOOSE d \in 0..9 : Digits[d + 1] = s[i]))

atoi(s) == atoi_from(s, 1, 0)

\* printf "%02d" of a non-negative slot.
RECURSIVE Decimal(_)
Decimal(n) == IF n < 10 THEN << Digits[n + 1] >>
              ELSE Decimal(n \div 10) \o << Digits[(n % 10) + 1] >>

Fmt02d(n) == IF n < 10 THEN << "0" >> \o Decimal(n) ELSE Decimal(n)

(***************************************************************************)
(* Savestate Name Validator.                                               *)
(***************************************************************************)
is_savestate_name_for(name, format) ==
  LET filename  == utils_last_filename(name, FALSE)
      dot       == strrchr(filename, ".")
      extension == SubSeq(filename, dot, Len(filename))
  IN  /\ name # NULL
      /\ filename # NULL
      /\ Len(filename) = 6                         \* nn.xxx
      /\ dot > 0
      /\ strncmp_equal(extension, format, 4)
      /\ isdigit(filename[1]) /\ isdigit(filename[2])

is_savestate_name(name) == is_savestate_name_for(name, od_quicksave_format)

\* is_savestate_name as the function pointer handed to the scanner, on the
\* names an enumeration yields.
is_savestate_name_fn(io) ==
  [n \in { io.entries[i] : i \in 1..Len(io.entries) } |-> is_savestate_name(n)]

(***************************************************************************)
(* Name Sanitizer and Slot Path Resolver.                                  *)
(***************************************************************************)
FUSE_DIR_SEP_STR == << "/" >>

\* A string constant of the source as a sequence of characters.
Str_savestates == << "s", "a", "v", "e", "s", "t", "a", "t", "e", "s" >>

\* Character classes of the expression, for the "C" locale.
Space == { " " }                                      \* [[:space:]]

Punct ==                              \* [[:punct:]], as far as names use it
  { "!", "#", "$", "%", "&", "(", ")", "*", "+", ",", "-", ".", "/",
    ":", ";", "<", "=", ">", "?", "@", "[", "]", "^", "_", "{", "|",
    "}", "~" }

SpaceDash == Space \cup { "-", "_" }                  \* ([[:space:]]|[-_])

OpenBracket == { "(", "[" }                           \* ([(]|[[])

CloseBracket == { ")", "]" }                          \* ([)]|[]])

SpacePunct == Space \cup Punct                        \* ([[:space:]]|[[:punct:]])

Keywords ==                                           \* (disk|tape|side|part)
  { << "d", "i", "s", "k" >>, << "t", "a", "p", "e" >>,
    << "s", "i", "d", "e" >>, << "p", "a", "r", "t" >> }

Identifier == { "a", "b", "c", "d", "1", "2", "3", "4" }   \* [abcd1234]

OfNumber == { "1", "2", "3", "4" }                    \* [1234]

UpperCase ==
  << "A", "B", "C", "D", "E", "F", "G", "H", "I", "J", "K", "L", "M",
     "N", "O", "P", "Q", "R", "S", "T", "U", "V", "W", "X", "Y", "Z" >>

LowerCase ==
  << "a", "b", "c", "d", "e", "f", "g", "h", "i", "j", "k", "l", "m",
     "n", "o", "p", "q", "r", "s", "t", "u", "v", "w", "x", "y", "z" >>

\* The expressions are matched without regard to case: a string is matched
\* in lower case.
tolower(c) ==
  IF \E i \in 1..26 : UpperCase[i] = c
  THEN LowerCase[CHOOSE i \in 1..26 : UpperCase[i] = c]
  ELSE c

lower(s) == [i \in 1..Len(s) |-> tolower(s[i])]

\* The end of the longest run of characters of class C that starts at p.
RECURSIVE run_end(_, _, _)
run_end(s, p, C) ==
  IF p <= Len(s) /\ s[p] \in C THEN run_end(s, p + 1, C) ELSE p

\* The start of the longest run of characters of class C that ends before q.
RECURSIVE run_start(_, _, _)
run_start(s, q, C) ==
  IF q > 1 /\ s[q - 1] \in C THEN run_start(s, q - 1, C) ELSE q

\* C* matched forwards from the positions S: the positions it can end at.
star(s, S, C) == UNION { p..run_end(s, p, C) : p \in S }

\* C* matched backwards from the positions S: the positions it can start at.
star_back(s, S, C) == UNION { run_start(s, q, C)..q : q \in S }

\* One character of class C.
one(s, S, C) == { p + 1 : p \in { q \in S : q <= Len(s) /\ s[q] \in C } }

\* The literal "of".
literal_of(s, S) ==
  { p + 2 : p \in { q \in S : q + 1 <= Len(s) /\ s[q] = "o" /\ s[q + 1] = "f" } }

\* ([[:space:]]*of[[:space:]]*[1234]) once, and any number of times.
of_group(s, S) ==
  one(s, star(s, literal_of(s, star(s, S, Space)), Space), OfNumber)

RECURSIVE of_star(_, _)
of_more(s, S, G) == IF G \subseteq S THEN S ELSE of_star(s, S \cup G)

of_star(s, S) == of_more(s, S, of_group(s, S))

\* A keyword of the expression stands at position k of s.
keyword_at(s, k) == k + 3 <= Len(s) /\ SubSeq(s, k, k + 3) \in Keywords

\* The positions a match whose keyword stands at k can end at: what follows
\* the keyword is separators, an identifier, "of n" groups, closing brackets
\* and trailing separators.
match_ends(s, k) ==
  star(s, star(s, star(s, of_star(s, one(s, star(s, {k + 4}, SpacePunct),
                                         Identifier)),
                       Space),
               CloseBracket),
       SpaceDash)

\* The positions such a match can start at: the keyword is preceded by
\* leading separators, opening brackets and spaces.
match_starts(s, k) ==
  star_back(s, star_back(s, star_back(s, {k}, Space), OpenBracket), SpaceDash)

\* The matches of the expression in s, as pairs << start, end >>.
matches(s) ==
  UNION { match_starts(s, k) \X match_ends(s, k) :
            k \in { j \in 1..Len(s) : keyword_at(s, j) } }

\* The leftmost match, and of the matches that start there the longest.
leftmost_longest(M) ==
  CHOOSE m \in M : \A n \in M : m[1] < n[1] \/ (m[1] = n[1] /\ n[2] <= m[2])

regmatch(M) ==
  IF M = {} THEN [so |-> 0, eo |-> 0]
  ELSE [so |-> leftmost_longest(M)[1], eo |-> leftmost_longest(M)[2]]

\* regexec of re_expressions[0] on s; so = 0 when nothing matches.
regexec(s) == regmatch(matches(lower(s)))

\* compat_chop_expressions: the matches of the expression removed, one after
\* the other from left to right.
RECURSIVE compat_chop_expressions(_)
chop_match(name, m) ==
  IF m.so = 0 THEN name
  ELSE SubSeq(name, 1, m.so - 1)
         \o compat_chop_expressions(SubSeq(name, m.eo, Len(name)))

compat_chop_expressions(name) == chop_match(name, regexec(name))

\* compat_get_config_path() where a configuration directory exists.
ConfigPath == << "c", "f", "g" >>

\* The directory the host keeps its programs in.
RomsDir == << "r", "o", "m", "s", "/" >>

\* Titles, and the qualifiers that tell the media of one title apart.
Game == << "G", "a", "m", "e" >>

DarkSide == << "D", "a", "r", "k", " ", "S", "i", "d", "e" >>

Titles == { Game, DarkSide }

Disk1of2 == << " ", "(", "D", "i", "s", "k", " ", "1", " ", "o", "f", " ", "2", ")" >>

Disk2of2 == << " ", "(", "D", "i", "s", "k", " ", "2", " ", "o", "f", " ", "2", ")" >>

QualifierTexts ==
  { Disk1of2, Disk2of2,
    << " ", "[", "S", "i", "d", "e", " ", "A", "]" >>,
    << "_", "t", "a", "p", "e", "-", "b" >>,
    << " ", "-", " ", "P", "a", "r", "t", " ", "3" >> }

\* The file name of one medium of a title.
MediaName(title, qualifier) ==
  RomsDir \o title \o qualifier \o << ".", "t", "z", "x" >>

MediaNames == { MediaName(t, q) : t \in Titles, q \in QualifierTexts }

OtherProgram == << "r", "o", "m", "s", "/", "O", "t", "h", "e", "r", ".", "t", "a", "p" >>

\* A program whose Save File path does not fit into PATH_MAX characters.
LongProgram ==
  << "r", "o", "m", "s", "/", "A", " ", "V", "e", "r", "y", " ", "L", "o", "n", "g", " ", "P", "r", "o", "g", "r", "a", "m", " ", "T", "i", "t", "l", "e", " ", "I", "n", "d", "e", "e", "d", ".", "t", "a", "p" >>

\* The files the host can open.
ProgramNames == MediaNames \cup { OtherProgram, LongProgram }

\* The programs the host may have opened last.
LastFilenames == { MediaName(Game, Disk1of2), OtherProgram }

\* compat_chop_expressions( re_expressions, utils_last_filename( name, 1 ) ),
\* tabulated on the files the host can open.
program_identity ==
  [name \in ProgramNames |->
     compat_chop_expressions(utils_last_filename(name, TRUE))]

\* libspectrum_machine_name( machine_current->machine )
machine_name == << "S", "p", "e", "c", "t", "r", "u", "m", " ", "4", "8", "K" >>

\* snprintf( buffer, size, ... ): at most size - 1 characters are stored.
snprintf(size, s) == SubSeq(s, 1, Min(size - 1, Len(s)))

quicksave_get_current_program ==
  IF last_filename = NULL THEN NULL
  ELSE program_identity[last_filename]

quicksave_get_current_dir ==
  IF last_filename = NULL THEN NULL
  ELSE IF cfgdir = NULL THEN NULL
  ELSE snprintf(PATH_MAX,
         cfgdir \o FUSE_DIR_SEP_STR \o Str_savestates \o FUSE_DIR_SEP_STR
           \o (IF od_quicksave_per_machine
               THEN machine_name \o FUSE_DIR_SEP_STR ELSE << >>)
           \o quicksave_get_current_program)

\* The Save File of a slot in the directory current_dir.
slot_filename(current_dir, slot) ==
  IF current_dir = NULL THEN NULL
  ELSE snprintf(PATH_MAX,
         current_dir \o FUSE_DIR_SEP_STR \o Fmt02d(slot) \o od_quicksave_format)

quicksave_get_filename(slot) == slot_filename(quicksave_get_current_dir, slot)

compat_file_exists(path) == path \in DOMAIN files

check_current_savestate_exist(slot) ==
  IF quicksave_get_filename(slot) # NULL
  THEN (IF compat_file_exists(quicksave_get_filename(slot)) THEN 1 ELSE 0)
  ELSE 0

\* check_current_savestate_exist_savename: the slot is read from the name.
check_current_savestate_exist_savename(savename) ==
  IF savename = NULL THEN 0
  ELSE check_current_savestate_exist(atoi(utils_last_filename(savename, TRUE)))

check_if_savestate_possible ==
  IF quicksave_get_current_program # NULL THEN 1 ELSE 0

\* quicksave_get_label: "<slot>: <program>" in a buffer of 20 characters, the
\* last one replaced by '>' when the program name has more than 15.
quicksave_get_label(slot) ==
  LET current_program == quicksave_get_current_program
      filename == utils_last_filename(quicksave_get_filename(slot), TRUE)
      label    == snprintf(20, filename \o << ":", " " >> \o current_program)
  IN  IF current_program = NULL THEN NULL
      ELSE IF filename = NULL THEN NULL
      ELSE IF Len(current_program) > 15 THEN SubSeq(label, 1, 18) \o << ">" >>
      ELSE label

\* stat(): io.stat_error is a failure with errno other than ENOENT.
stat(dir, io) ==
  IF io.stat_error THEN "error" ELSE IF dir \notin dirs THEN "ENOENT" ELSE "ok"

check_dir_exist(dir, io) ==
  IF dir = NULL THEN -1
  ELSE IF stat(dir, io) = "ENOENT" THEN 0
  ELSE IF stat(dir, io) = "error" THEN -1
  ELSE 1

\* The names of the entries of directory dir.
DirEntries(dir) ==
  { SubSeq(f, Len(dir) + 2, Len(f)) :
      f \in { g \in DOMAIN files :
                /\ Len(g) > Len(dir) + 1
                /\ SubSeq(g, 1, Len(dir) + 1) = dir \o FUSE_DIR_SEP_STR
                /\ strrchr(g, "/") = Len(dir) + 1 } }

(***************************************************************************)
(* Events: the calls an operation makes to its collaborators, in order.    *)
(***************************************************************************)
Ev(name, a) == [ev |-> name, arg |-> a, res |-> "ok"]

\* An event together with what the collaborator answered.
EvR(name, a, r) == [ev |-> name, arg |-> a, res |-> r]

Has(trace, name) == \E i \in 1..Len(trace) : trace[i].ev = name

Count(trace, name) == Cardinality({ i \in 1..Len(trace) : trace[i].ev = name })

\* Positions of an event in a trace.
At(trace, name) == { i \in 1..Len(trace) : trace[i].ev = name }

(***************************************************************************)
(* Directory Scanner.  The predicate check_fn is a function from entry     *)
(* names to BOOLEAN.                                                       *)
(*   io.opendir_fail   compat_opendir returns NULL                         *)
(*   io.entries        the entries in the order compat_readdir yields them *)
(*   io.error_at       k > 0: the k-th compat_readdir reports an error     *)
(*   io.closedir_fail  compat_closedir returns non-zero                    *)
(***************************************************************************)
\* compat_readdir, k-th call on a directory handle.
compat_readdir(io, k) ==
  IF k = io.error_at THEN [result |-> "COMPAT_DIR_RESULT_ERROR", name |-> NULL]
  ELSE IF k <= Len(io.entries)
       THEN [result |-> "COMPAT_DIR_RESULT_OK", name |-> io.entries[k]]
       ELSE [result |-> "COMPAT_DIR_RESULT_END", name |-> NULL]

\* The while( !done ) loop, from the k-th read on.
RECURSIVE scan_loop(_, _, _, _)
scan_loop(io, check_fn, k, trace) ==
  LET r  == compat_readdir(io, k)
      t1 == Append(trace, EvR("compat_readdir", r.name, r.result))
  IN  CASE r.result = "COMPAT_DIR_RESULT_OK" ->
             IF check_fn[r.name]
             THEN [exist |-> 1, error |-> FALSE, trace |-> t1]
             ELSE scan_loop(io, check_fn, k + 1, t1)
        [] r.result = "COMPAT_DIR_RESULT_END" ->
             [exist |-> 0, error |-> FALSE, trace |-> t1]
        [] OTHER ->
             [exist |-> 0, error |-> TRUE, trace |-> t1]

\* A scanner that does not stop at the first match.
RECURSIVE scan_loop_no_stop(_, _, _, _, _)
scan_loop_no_stop(io, check_fn, k, trace, found) ==
  LET r  == compat_readdir(io, k)
      t1 == Append(trace, EvR("compat_readdir", r.name, r.result))
  IN  CASE r.result = "COMPAT_DIR_RESULT_OK" ->
             scan_loop_no_stop(io, check_fn, k + 1, t1,
                               IF check_fn[r.name] THEN 1 ELSE found)
        [] r.result = "COMPAT_DIR_RESULT_END" ->
             [exist |-> found, error |-> FALSE, trace |-> t1]
        [] OTHER ->
             [exist |-> 0, error |-> TRUE, trace |-> t1]

scan_directory_no_stop(dir, check_fn, io) ==
  IF dir = NULL THEN [ret |-> 0, trace |-> << >>]
  ELSE IF io.opendir_fail \/ dir \notin dirs
  THEN [ret |-> 0, trace |-> << EvR("compat_opendir", dir, "fail") >>]
  ELSE LET l == scan_loop_no_stop(io, check_fn, 1, << Ev("compat_opendir", dir) >>, 0)
           t == Append(l.trace,
                       EvR("compat_closedir", dir,
                           IF io.closedir_fail THEN "fail" ELSE "ok"))
       IN  IF l.error THEN [ret |-> 0, trace |-> t]
           ELSE IF io.closedir_fail THEN [ret |-> 0, trace |-> t]
           ELSE [ret |-> l.exist, trace |-> t]

\* A scanner that returns on an enumeration error without closing.
scan_directory_no_close_on_error(dir, check_fn, io) ==
  IF dir = NULL THEN [ret |-> 0, trace |-> << >>]
  ELSE IF io.opendir_fail \/ dir \notin dirs
  THEN [ret |-> 0, trace |-> << EvR("compat_opendir", dir, "fail") >>]
  ELSE LET l == scan_loop(io, check_fn, 1, << Ev("compat_opendir", dir) >>)
           t == Append(l.trace,
                       EvR("compat_closedir", dir,
                           IF io.closedir_fail THEN "fail" ELSE "ok"))
       IN  IF l.error THEN [ret |-> 0, trace |-> l.trace]
           ELSE IF io.closedir_fail THEN [ret |-> 0, trace |-> t]
           ELSE [ret |-> l.exist, trace |-> t]

scan_directory_for_savestates(dir, check_fn, io) ==
  IF dir = NULL THEN [ret |-> 0, trace |-> << >>]
  ELSE IF io.opendir_fail \/ dir \notin dirs
  THEN [ret |-> 0, trace |-> << EvR("compat_opendir", dir, "fail") >>]
  ELSE LET l == scan_loop(io, check_fn, 1, << Ev("compat_opendir", dir) >>)
           t == Append(l.trace,
                       EvR("compat_closedir", dir,
                           IF io.closedir_fail THEN "fail" ELSE "ok"))
       IN  IF l.error THEN [ret |-> 0, trace |-> t]
           ELSE IF io.closedir_fail THEN [ret |-> 0, trace |-> t]
           ELSE [ret |-> l.exist, trace |-> t]

\* The orders in which a directory's entries can be enumerated.
RECURSIVE Orders(_)
Orders(S) ==
  IF S = {} THEN { << >> }
  ELSE UNION { { << x >> \o o : o \in Orders(S \ {x}) } : x \in S }

\* No system call fails.
NoFault ==
  [stat_error |-> FALSE, mkdir_fail |-> FALSE, write_fail |-> FALSE,
   open_fail |-> FALSE, opendir_fail |-> FALSE, entries |-> << >>,
   error_at |-> 0, closedir_fail |-> FALSE, read_fail |-> FALSE,
   parse_fail |-> FALSE, snap_free_fail |-> FALSE,
   file_open_fail |-> FALSE, time_null |-> FALSE]

\* The outcomes the system calls of a scan of dir can have.
ScanIO(dir) ==
  { [NoFault EXCEPT !.opendir_fail = TRUE] } \cup
  { [NoFault EXCEPT !.entries = e, !.error_at = k, !.closedir_fail = c] :
      c \in BOOLEAN,
      e \in Orders(DirEntries(dir)),
      k \in 0..(Cardinality(DirEntries(dir)) + 1) }

(***************************************************************************)
(* Snapshots: what libspectrum reads from and writes to a Save File.       *)
(* A memory page n of a snapshot holds PageByte(fill[n], i) at offset i.   *)
(***************************************************************************)
Machines ==
  { "LIBSPECTRUM_MACHINE_48", "LIBSPECTRUM_MACHINE_TC2048",
    "LIBSPECTRUM_MACHINE_128", "LIBSPECTRUM_MACHINE_PLUS2",
    "LIBSPECTRUM_MACHINE_PENT", "LIBSPECTRUM_MACHINE_PLUS2A",
    "LIBSPECTRUM_MACHINE_PLUS3", "LIBSPECTRUM_MACHINE_UNKNOWN",
    "LIBSPECTRUM_MACHINE_16", "LIBSPECTRUM_MACHINE_TC2068",
    "LIBSPECTRUM_MACHINE_SCORP", "LIBSPECTRUM_MACHINE_PLUS3E",
    "LIBSPECTRUM_MACHINE_SE", "LIBSPECTRUM_MACHINE_TS2068",
    "LIBSPECTRUM_MACHINE_PENT512", "LIBSPECTRUM_MACHINE_PENT1024",
    "LIBSPECTRUM_MACHINE_48_NTSC", "LIBSPECTRUM_MACHINE_128E" }

\* Values of the 128K paging register (port 0x7ffd) seen in snapshots.
MemoryPorts == { 0, 8, 16, 247, 255 }

\* Pages 5 and 7 of a snapshot carry different fill patterns.
Snapshots ==
  [valid : {TRUE}, machine : Machines, out_128_memoryport : MemoryPorts,
   fill5 : {1}, fill7 : {2}]

\* A file that is no snapshot.
JunkContent ==
  [valid |-> FALSE, machine |-> "LIBSPECTRUM_MACHINE_UNKNOWN",
   out_128_memoryport |-> 0, fill5 |-> 1, fill7 |-> 1]

\* The snapshot snapshot_write() takes of the running machine.
CurrentSnap ==
  [valid |-> TRUE, machine |-> "LIBSPECTRUM_MACHINE_48",
   out_128_memoryport |-> 0, fill5 |-> 1, fill7 |-> 2]

(***************************************************************************)
(* Savestate I/O Wrapper.  Built with MIYOO defined (the bittboy port), so *)
(* the status messages carry the slot only.                                *)
(*   io.stat_error  stat() fails with errno other than ENOENT              *)
(*   io.mkdir_fail  compat_createdir returns -1                            *)
(*   io.write_fail  snapshot_write returns an error                        *)
(*   io.open_fail   utils_open_file returns an error                       *)
(* A result is [ret, trace, leak, dirs, files]: leak counts the blocks the *)
(* call allocated and neither freed, returned nor kept.                    *)
(***************************************************************************)
\* snapshot_write cannot create one more file on a full disk.
DiskFull(filename) ==
  filename \notin DOMAIN files /\ Cardinality(DOMAIN files) >= MaxFiles

\* snapshot_write returns an error: the write fails, the disk is full, or
\* the path names a directory.
snapshot_write_fails(filename, d, io) ==
  io.write_fail \/ DiskFull(filename) \/ filename \in d

Result(r, t, l, d, f) ==
  [ret |-> r, trace |-> t, leak |-> l, dirs |-> d, files |-> f]

\* A quicksave_create_dir that reports an unresolved directory to the user.
quicksave_create_dir_reports_unresolved(io) ==
  LET savestate_dir == quicksave_get_current_dir
      exist         == check_dir_exist(savestate_dir, io)
      st            == EvR("stat", savestate_dir, stat(savestate_dir, io))
  IN  IF savestate_dir = NULL
      THEN Result(1, << Ev("ui_error", savestate_dir) >>, 0, dirs, files)
      ELSE IF exist = 0
      THEN IF io.mkdir_fail
           THEN Result(1, << st, EvR("compat_createdir", savestate_dir, "fail"),
                             Ev("ui_error", savestate_dir) >>, 1, dirs, files)
           ELSE Result(0, << st, Ev("compat_createdir", savestate_dir) >>, 0,
                       dirs \cup {savestate_dir}, files)
      ELSE IF exist = -1
      THEN Result(1, << st, Ev("ui_error", savestate_dir) >>, 1, dirs, files)
      ELSE Result(0, << st >>, 0, dirs, files)

quicksave_create_dir(io) ==
  LET savestate_dir == quicksave_get_current_dir
      exist         == check_dir_exist(savestate_dir, io)
      st            == EvR("stat", savestate_dir, stat(savestate_dir, io))
  IN  IF savestate_dir = NULL THEN Result(1, << >>, 0, dirs, files)
      ELSE IF exist = 0
      THEN IF io.mkdir_fail
           THEN \* returns without libspectrum_free( savestate_dir )
                Result(1, << st, EvR("compat_createdir", savestate_dir, "fail"),
                             Ev("ui_error", savestate_dir) >>, 1, dirs, files)
           ELSE Result(0, << st, Ev("compat_createdir", savestate_dir) >>, 0,
                       dirs \cup {savestate_dir}, files)
      ELSE IF exist = -1
      THEN \* returns without libspectrum_free( savestate_dir )
           Result(1, << st, Ev("ui_error", savestate_dir) >>, 1, dirs, files)
      ELSE Result(0, << st >>, 0, dirs, files)

\* A save that reports the failure of quicksave_create_dir a second time.
savestate_write_internal_reports_again(slot, io) ==
  LET filename == quicksave_get_filename(slot)
      cd       == quicksave_create_dir(io)
  IN  IF filename = NULL THEN Result(1, << >>, 0, dirs, files)
      ELSE IF cd.ret # 0
      THEN Result(1, cd.trace \o << Ev("ui_error", Fmt02d(slot)) >>,
                  cd.leak + 1, cd.dirs, files)
      ELSE IF snapshot_write_fails(filename, cd.dirs, io)
      THEN Result(1, cd.trace \o << EvR("snapshot_write", filename, "fail"),
                                    Ev("ui_error", Fmt02d(slot)) >>,
                  cd.leak, cd.dirs, files)
      ELSE Result(0, cd.trace \o << Ev("snapshot_write", filename),
                       Ev("ui_widget_show_msg_update_info", Fmt02d(slot)) >>,
                  cd.leak, cd.dirs,
                  [f \in DOMAIN files \cup {filename} |->
                     IF f = filename THEN CurrentSnap ELSE files[f]])

\* A save that writes the snapshot whatever quicksave_create_dir returned.
savestate_write_internal_ignores_dir(slot, io) ==
  LET filename == quicksave_get_filename(slot)
      cd       == quicksave_create_dir(io)
  IN  IF filename = NULL THEN Result(1, << >>, 0, dirs, files)
      ELSE IF snapshot_write_fails(filename, cd.dirs, io)
      THEN Result(1, cd.trace \o << EvR("snapshot_write", filename, "fail"),
                                    Ev("ui_error", Fmt02d(slot)) >>,
                  cd.leak, cd.dirs, files)
      ELSE Result(0, cd.trace \o << Ev("snapshot_write", filename),
                       Ev("ui_widget_show_msg_update_info", Fmt02d(slot)) >>,
                  cd.leak, cd.dirs,
                  [f \in DOMAIN files \cup {filename} |->
                     IF f = filename THEN CurrentSnap ELSE files[f]])

savestate_write_internal(slot, io) ==
  LET filename == quicksave_get_filename(slot)
      cd       == quicksave_create_dir(io)
  IN  IF filename = NULL THEN Result(1, << >>, 0, dirs, files)
      ELSE IF cd.ret # 0
      THEN \* returns without libspectrum_free( filename )
           Result(1, cd.trace, cd.leak + 1, cd.dirs, files)
      ELSE IF snapshot_write_fails(filename, cd.dirs, io)
      THEN Result(1, cd.trace \o << EvR("snapshot_write", filename, "fail"),
                                    Ev("ui_error", Fmt02d(slot)) >>,
                  cd.leak, cd.dirs, files)
      ELSE Result(0, cd.trace \o << Ev("snapshot_write", filename),
                       Ev("ui_widget_show_msg_update_info", Fmt02d(slot)) >>,
                  cd.leak, cd.dirs,
                  [f \in DOMAIN files \cup {filename} |->
                     IF f = filename THEN CurrentSnap ELSE files[f]])

savestate_read_internal(slot, io) ==
  LET filename == quicksave_get_filename(slot)
  IN  IF check_current_savestate_exist(slot) = 0
      THEN Result(1, << >>, 0, dirs, files)
      ELSE IF filename = NULL THEN Result(1, << >>, 0, dirs, files)
      ELSE IF io.open_fail
      THEN Result(1, << Ev("utils_open_file", filename),
                        Ev("ui_error", Fmt02d(slot)) >>, 0, dirs, files)
      ELSE Result(0, << Ev("utils_open_file", filename),
                        Ev("ui_widget_show_msg_update_info", Fmt02d(slot)) >>,
                  0, dirs, files)

\* quicksave_load that returns as soon as the load failed.
quicksave_load_early_return(io) ==
  LET r == savestate_read_internal(od_quicksave_slot, io)
  IN  IF check_current_savestate_exist(od_quicksave_slot) = 0
      THEN Result(0, << >>, 0, dirs, files)
      ELSE IF r.ret # 0
      THEN [r EXCEPT !.trace = << Ev("fuse_emulation_pause", NULL) >> \o r.trace]
      ELSE [r EXCEPT !.trace = << Ev("fuse_emulation_pause", NULL) >> \o r.trace
                       \o << Ev("display_refresh_all", NULL),
                             Ev("fuse_emulation_unpause", NULL) >>]

quicksave_load(io) ==
  LET r == savestate_read_internal(od_quicksave_slot, io)
  IN  IF check_current_savestate_exist(od_quicksave_slot) = 0
      THEN Result(0, << >>, 0, dirs, files)
      ELSE [r EXCEPT !.trace = << Ev("fuse_emulation_pause", NULL) >> \o r.trace
                       \o << Ev("display_refresh_all", NULL),
                             Ev("fuse_emulation_unpause", NULL) >>]

quicksave_save(io) ==
  LET r == savestate_write_internal(od_quicksave_slot, io)
  IN  [r EXCEPT !.trace = << Ev("fuse_emulation_pause", NULL) >> \o r.trace
                   \o << Ev("fuse_emulation_unpause", NULL) >>]

\* savestate_read / savestate_write: [slot, r], slot the new od_quicksave_slot.
savestate_read(savestate, io) ==
  LET slot == utils_last_filename(savestate, TRUE)
  IN  IF slot = NULL
      THEN [slot |-> od_quicksave_slot, r |-> Result(1, << >>, 0, dirs, files)]
      ELSE [slot |-> atoi(slot), r |-> savestate_read_internal(atoi(slot), io)]

savestate_write(savestate, io) ==
  LET slot == utils_last_filename(savestate, TRUE)
  IN  IF slot = NULL
      THEN [slot |-> od_quicksave_slot, r |-> Result(1, << >>, 0, dirs, files)]
      ELSE [slot |-> atoi(slot), r |-> savestate_write_internal(atoi(slot), io)]

(***************************************************************************)
(* Directory Existence Cache.                                              *)
(* A result is [ret, trace, leak, lcd, lcdr]: lcd and lcdr are the new     *)
(* values of last_check_directory and last_check_directory_result.         *)
(***************************************************************************)
CacheResult(r, t, l, d, dr) ==
  [ret |-> r, trace |-> t, leak |-> l, lcd |-> d, lcdr |-> dr]

\* The cache without the test of the sticky result: it scans on every call.
check_any_savestate_exist_always_scan(io) ==
  LET savestate_dir == quicksave_get_current_dir
      scan == scan_directory_for_savestates(savestate_dir, is_savestate_name_fn(io), io)
      st   == EvR("stat", savestate_dir, stat(savestate_dir, io))
  IN  IF savestate_dir = NULL
      THEN CacheResult(0, << >>, 0, last_check_directory, last_check_directory_result)
      ELSE IF check_dir_exist(savestate_dir, io) = 0
      THEN CacheResult(0, << st >>, 0, last_check_directory, last_check_directory_result)
      ELSE IF last_check_directory = NULL \/ savestate_dir # last_check_directory
      THEN CacheResult(0, << st >>, IF last_check_directory = NULL THEN 0 ELSE 1,
                       savestate_dir, 0)
      ELSE CacheResult(scan.ret, << st >> \o scan.trace, 0, last_check_directory, scan.ret)

\* The cache that forgets what it knows when the directory cannot be used.
check_any_savestate_exist_reset_on_absent(io) ==
  LET savestate_dir == quicksave_get_current_dir
      scan == scan_directory_for_savestates(savestate_dir, is_savestate_name_fn(io), io)
      st   == EvR("stat", savestate_dir, stat(savestate_dir, io))
  IN  IF savestate_dir = NULL
      THEN CacheResult(0, << >>, 0, last_check_directory, 0)
      ELSE IF check_dir_exist(savestate_dir, io) = 0
      THEN CacheResult(0, << st >>, 0, last_check_directory, 0)
      ELSE IF last_check_directory = NULL \/ savestate_dir # last_check_directory
      THEN CacheResult(0, << st >>, IF last_check_directory = NULL THEN 0 ELSE 1,
                       savestate_dir, 0)
      ELSE IF last_check_directory_result = 0
      THEN CacheResult(scan.ret, << st >> \o scan.trace, 0, last_check_directory, scan.ret)
      ELSE CacheResult(last_check_directory_result, << st >>, 0,
                       last_check_directory, last_check_directory_result)

\* The cache that keeps its result when the directory changes.
check_any_savestate_exist_keep_result(io) ==
  LET savestate_dir == quicksave_get_current_dir
      scan == scan_directory_for_savestates(savestate_dir, is_savestate_name_fn(io), io)
      st   == EvR("stat", savestate_dir, stat(savestate_dir, io))
  IN  IF savestate_dir = NULL
      THEN CacheResult(0, << >>, 0, last_check_directory, last_check_directory_result)
      ELSE IF check_dir_exist(savestate_dir, io) = 0
      THEN CacheResult(0, << st >>, 0, last_check_directory, last_check_directory_result)
      ELSE IF last_check_directory = NULL \/ savestate_dir # last_check_directory
      THEN CacheResult(last_check_directory_result, << st >>,
                       IF last_check_directory = NULL THEN 0 ELSE 1,
                       savestate_dir, last_check_directory_result)
      ELSE IF last_check_directory_result = 0
      THEN CacheResult(scan.ret, << st >> \o scan.trace, 0, last_check_directory, scan.ret)
      ELSE CacheResult(last_check_directory_result, << st >>, 0,
                       last_check_directory, last_check_directory_result)

check_any_savestate_exist(io) ==
  LET savestate_dir == quicksave_get_current_dir
      scan == scan_directory_for_savestates(savestate_dir, is_savestate_name_fn(io), io)
      st   == EvR("stat", savestate_dir, stat(savestate_dir, io))
  IN  IF savestate_dir = NULL
      THEN CacheResult(0, << >>, 0, last_check_directory, last_check_directory_result)
      ELSE IF check_dir_exist(savestate_dir, io) = 0
      THEN CacheResult(0, << st >>, 0, last_check_directory, last_check_directory_result)
      ELSE IF last_check_directory = NULL \/ savestate_dir # last_check_directory
      THEN \* the previous last_check_directory is overwritten, not freed
           CacheResult(0, << st >>, IF last_check_directory = NULL THEN 0 ELSE 1,
                       savestate_dir, 0)
      ELSE IF last_check_directory_result = 0
      THEN CacheResult(scan.ret, << st >> \o scan.trace, 0, last_check_directory, scan.ret)
      ELSE CacheResult(last_check_directory_result, << st >>, 0,
                       last_check_directory, last_check_directory_result)

(***************************************************************************)
(* The record of a call.                                                   *)
(*   op, arg0     the entry point and its argument                         *)
(*   ret, trace   what it returned and the calls it made                   *)
(*   dir          the Save Directory it resolved (NULL when absent)        *)
(*   lcd0, lcdr0  the cache fields when it was called                      *)
(*   leak         blocks it allocated and neither freed nor handed over    *)
(***************************************************************************)
Call(o, a, r, t, l) ==
  [op |-> o, arg0 |-> a, ret |-> r, trace |-> t,
   dir |-> quicksave_get_current_dir,
   lcd0 |-> last_check_directory, lcdr0 |-> last_check_directory_result,
   leak |-> l]

NoCall ==
  [op |-> "none", arg0 |-> NULL, ret |-> 0, trace |-> << >>, dir |-> NULL,
   lcd0 |-> NULL, lcdr0 |-> 0, leak |-> 0]

\* The nesting depth of fuse_emulation_pause after the calls of a trace.
PausedAfter(depth, trace) ==
  depth + Count(trace, "fuse_emulation_pause")
        - Count(trace, "fuse_emulation_unpause")

(***************************************************************************)
(* Screen Thumbnail Extractor.                                             *)
(*   io.read_fail       utils_read_file returns an error                   *)
(*   io.parse_fail      libspectrum_snap_read rejects the data             *)
(*   io.snap_free_fail  libspectrum_snap_free returns an error             *)
(***************************************************************************)
SCREEN_LENGTH == 6912

\* Byte i of a memory page filled with pattern fill.
PageByte(fill, i) == (fill * 101 + i) % 256

\* libspectrum_snap_pages( snap, page ): the 16K of a memory page.
libspectrum_snap_pages(snap, page) ==
  LET fill == IF page = 7 THEN snap.fill7
              ELSE IF page = 5 THEN snap.fill5 ELSE page
  IN  [i \in 1..16384 |-> PageByte(fill, i)]

\* memset( buffer, 0, length ) on a fresh buffer of that length.
ZeroBuffer(length) == [i \in 1..length |-> 0]

\* memcpy( dst, src, n )
memcpy(dst, src, n) ==
  [i \in 1..Len(dst) |-> IF i <= n THEN src[i] ELSE dst[i]]

\* savetate_read_snapshot: [ret, trace, snap], snap the parsed snapshot.
savetate_read_snapshot(snapshot, io) ==
  IF snapshot = NULL
  THEN [ret |-> 1, trace |-> << >>, snap |-> JunkContent]
  ELSE IF ~compat_file_exists(snapshot)
  THEN [ret |-> 1, trace |-> << EvR("compat_file_exists", snapshot, "no") >>,
        snap |-> JunkContent]
  ELSE IF io.read_fail
  THEN [ret |-> 1,
        trace |-> << Ev("compat_file_exists", snapshot),
                     EvR("utils_read_file", snapshot, "fail") >>,
        snap |-> JunkContent]
  ELSE IF io.parse_fail \/ ~files[snapshot].valid
  THEN [ret |-> 1,
        trace |-> << Ev("compat_file_exists", snapshot),
                     Ev("utils_read_file", snapshot),
                     EvR("libspectrum_snap_read", snapshot, "fail"),
                     Ev("utils_close_file", snapshot) >>,
        snap |-> JunkContent]
  ELSE [ret |-> 0,
        trace |-> << Ev("compat_file_exists", snapshot),
                     Ev("utils_read_file", snapshot),
                     Ev("libspectrum_snap_read", snapshot),
                     Ev("utils_close_file", snapshot) >>,
        snap |-> files[snapshot]]

\* The page selection that tests bit 4 of the paging register.
screen_page_bit4(snap) ==
  IF snap.machine \in
       { "LIBSPECTRUM_MACHINE_PENT", "LIBSPECTRUM_MACHINE_PENT512",
         "LIBSPECTRUM_MACHINE_PENT1024", "LIBSPECTRUM_MACHINE_SCORP",
         "LIBSPECTRUM_MACHINE_PLUS3E", "LIBSPECTRUM_MACHINE_PLUS2A",
         "LIBSPECTRUM_MACHINE_PLUS3", "LIBSPECTRUM_MACHINE_PLUS2",
         "LIBSPECTRUM_MACHINE_128", "LIBSPECTRUM_MACHINE_128E",
         "LIBSPECTRUM_MACHINE_SE" }
  THEN (IF (snap.out_128_memoryport \div 16) % 2 = 1 THEN 7 ELSE 5)
  ELSE 5

\* The switch on libspectrum_snap_machine( snap ): the display page.
screen_page(snap) ==
  IF snap.machine \in
       { "LIBSPECTRUM_MACHINE_PENT", "LIBSPECTRUM_MACHINE_PENT512",
         "LIBSPECTRUM_MACHINE_PENT1024", "LIBSPECTRUM_MACHINE_SCORP",
         "LIBSPECTRUM_MACHINE_PLUS3E", "LIBSPECTRUM_MACHINE_PLUS2A",
         "LIBSPECTRUM_MACHINE_PLUS3", "LIBSPECTRUM_MACHINE_PLUS2",
         "LIBSPECTRUM_MACHINE_128", "LIBSPECTRUM_MACHINE_128E",
         "LIBSPECTRUM_MACHINE_SE" }
  THEN (IF (snap.out_128_memoryport \div 8) % 2 = 1 THEN 7 ELSE 5)  \* & 0x08
  ELSE 5

ScreenResult(r, t, b) == [ret |-> r, trace |-> t, screen |-> b, leak |-> 0]

\* The extractor that returns on a failed read without releasing the snapshot.
savestate_get_screen_for_slot_no_release(slot, io) ==
  LET savestate == quicksave_get_filename(slot)
      rd        == savetate_read_snapshot(savestate, io)
      t0        == << Ev("libspectrum_new", NULL), Ev("memset", NULL),
                      Ev("libspectrum_snap_alloc", NULL) >>
                   \o rd.trace \o << Ev("libspectrum_free", savestate) >>
      copied    == memcpy(ZeroBuffer(SCREEN_LENGTH),
                          libspectrum_snap_pages(rd.snap, screen_page(rd.snap)),
                          SCREEN_LENGTH)
  IN  IF rd.ret # 0
      THEN ScreenResult(rd.ret, t0, ZeroBuffer(SCREEN_LENGTH))
      ELSE IF io.snap_free_fail
      THEN ScreenResult(1, t0 \o << Ev("memcpy", NULL),
                                     EvR("libspectrum_snap_free", NULL, "fail") >>,
                        copied)
      ELSE ScreenResult(0, t0 \o << Ev("memcpy", NULL),
                                     Ev("libspectrum_snap_free", NULL) >>,
                        copied)

savestate_get_screen_for_slot(slot, io) ==
  LET savestate == quicksave_get_filename(slot)
      rd        == savetate_read_snapshot(savestate, io)
      t0        == << Ev("libspectrum_new", NULL), Ev("memset", NULL),
                      Ev("libspectrum_snap_alloc", NULL) >>
                   \o rd.trace \o << Ev("libspectrum_free", savestate) >>
      copied    == memcpy(ZeroBuffer(SCREEN_LENGTH),
                          libspectrum_snap_pages(rd.snap, screen_page(rd.snap)),
                          SCREEN_LENGTH)
  IN  IF rd.ret # 0
      THEN ScreenResult(rd.ret, t0 \o << Ev("libspectrum_snap_free", NULL) >>,
                        ZeroBuffer(SCREEN_LENGTH))
      ELSE IF io.snap_free_fail
      THEN ScreenResult(1, t0 \o << Ev("memcpy", NULL),
                                     EvR("libspectrum_snap_free", NULL, "fail") >>,
                        copied)
      ELSE ScreenResult(0, t0 \o << Ev("memcpy", NULL),
                                     Ev("libspectrum_snap_free", NULL) >>,
                        copied)

(***************************************************************************)
(* The time a Save File was last changed.                                  *)
(*   io.file_open_fail  compat_file_open returns NULL                      *)
(*   io.time_null       compat_file_get_time_last_change returns NULL      *)
(***************************************************************************)
\* What compat_file_get_time_last_change answers: a time and a newline.
LastChangeText == << "F", "r", "i", " ", "N", "o", "v", " ", " ", "6", " ", "1", "1", ":", "0", "0", ":", "0", "0", " ", "2", "0", "2", "6", "\n" >>

\* get_savestate_last_change: [ret, trace, leak], ret the string or NULL.
get_savestate_last_change(slot, io) ==
  LET filename    == quicksave_get_filename(slot)
      last_change == IF io.time_null THEN NULL ELSE LastChangeText
      opened      == << Ev("compat_file_open", filename),
                        Ev("libspectrum_free", filename),
                        EvR("compat_file_get_time_last_change", filename,
                            IF io.time_null THEN "null" ELSE "ok"),
                        Ev("compat_file_close", filename) >>
  IN  IF check_current_savestate_exist(slot) = 0
      THEN [ret |-> NULL, trace |-> << >>, leak |-> 0]
      ELSE IF io.file_open_fail
      THEN [ret |-> NULL,
            trace |-> << EvR("compat_file_open", filename, "fail"),
                         Ev("libspectrum_free", filename) >>,
            leak |-> 0]
      ELSE IF last_change # NULL
      THEN \* last_change[ strlen( last_change ) - 1 ] = '\0'
           [ret |-> SubSeq(last_change, 1, Len(last_change) - 1),
            trace |-> opened, leak |-> 0]
      ELSE [ret |-> NULL, trace |-> opened, leak |-> 0]

LastChangeIO ==
  { NoFault,
    [NoFault EXCEPT !.file_open_fail = TRUE],
    [NoFault EXCEPT !.time_null = TRUE] }

ScreenIO ==
  { NoFault,
    [NoFault EXCEPT !.read_fail = TRUE],
    [NoFault EXCEPT !.parse_fail = TRUE],
    [NoFault EXCEPT !.snap_free_fail = TRUE] }

(***************************************************************************)
(* The outcomes of the system calls of each entry point.                   *)
(***************************************************************************)
\* A call is aborted by the first system call that fails, so one failure
\* per call covers every outcome.
SaveIO ==
  { NoFault,
    [NoFault EXCEPT !.stat_error = TRUE],
    [NoFault EXCEPT !.mkdir_fail = TRUE],
    [NoFault EXCEPT !.write_fail = TRUE] }

LoadIO == { NoFault, [NoFault EXCEPT !.open_fail = TRUE] }

CheckIO ==
  ScanIO(quicksave_get_current_dir) \cup
  { [i EXCEPT !.stat_error = TRUE] :
      i \in { j \in ScanIO(quicksave_get_current_dir) :
                 j.error_at = 0 /\ ~j.closedir_fail } }

\* The path-like strings a slot is chosen by: a file picker's selection.
SavestateArgs ==
  { NULL } \cup
  { << "p", "/" >> \o Fmt02d(n) \o od_quicksave_format : n \in 0..MaxSlot }

\* Names of files that other programs put into a Save Directory.
ForeignNames == { << "0", "x", ".", "s", "z", "x" >> }

(***************************************************************************)
(* Actions of the module: one per entry point.                             *)
(***************************************************************************)
Unchanged_config ==
  UNCHANGED << last_filename, cfgdir, od_quicksave_per_machine, od_quicksave_format >>

Apply(o, a, r) ==
  /\ dirs' = r.dirs
  /\ files' = r.files
  /\ fuse_emulation_paused' = PausedAfter(fuse_emulation_paused, r.trace)
  /\ call' = Call(o, a, r.ret, r.trace, r.leak)
  /\ UNCHANGED << last_check_directory, last_check_directory_result, screen,
                  arg, trueFor >>
  /\ Unchanged_config

QuicksaveSave ==
  \E io \in SaveIO :
    /\ Apply("quicksave_save", NULL, quicksave_save(io))
    /\ UNCHANGED od_quicksave_slot

QuicksaveLoad ==
  \E io \in LoadIO :
    /\ Apply("quicksave_load", NULL, quicksave_load(io))
    /\ UNCHANGED od_quicksave_slot

SavestateRead ==
  \E savestate \in SavestateArgs, io \in LoadIO :
    /\ Apply("savestate_read", savestate, savestate_read(savestate, io).r)
    /\ od_quicksave_slot' = savestate_read(savestate, io).slot

SavestateWrite ==
  \E savestate \in SavestateArgs, io \in SaveIO :
    /\ Apply("savestate_write", savestate, savestate_write(savestate, io).r)
    /\ od_quicksave_slot' = savestate_write(savestate, io).slot

QuicksaveCreateDir ==
  \E io \in SaveIO :
    /\ Apply("quicksave_create_dir", NULL, quicksave_create_dir(io))
    /\ UNCHANGED od_quicksave_slot

CheckAnySavestateExist ==
  \E io \in CheckIO :
    LET r == check_any_savestate_exist(io)
        d == quicksave_get_current_dir
    IN  /\ last_check_directory' = r.lcd
        /\ last_check_directory_result' = r.lcdr
        /\ call' = Call("check_any_savestate_exist", NULL, r.ret, r.trace, r.leak)
        /\ trueFor' = IF r.ret = 1 THEN d
                      ELSE IF d # NULL /\ d # trueFor THEN NULL
                      ELSE trueFor
        /\ UNCHANGED << dirs, files, fuse_emulation_paused, screen, arg,
                        od_quicksave_slot >>
        /\ Unchanged_config

(***************************************************************************)
(* Actions of the environment: the host and other programs.                *)
(***************************************************************************)
Env ==
  /\ call' = NoCall
  /\ UNCHANGED << cfgdir, od_quicksave_per_machine, od_quicksave_format,
                  last_check_directory, last_check_directory_result,
                  fuse_emulation_paused, screen, arg, trueFor >>

\* The host opens a program.
OpenProgram ==
  \E f \in LastFilenames :
    /\ last_filename' = f
    /\ Env
    /\ UNCHANGED << od_quicksave_slot, dirs, files >>

\* The user selects the default slot.
SelectSlot ==
  \E n \in 0..MaxSlot :
    /\ od_quicksave_slot' = n
    /\ Env
    /\ UNCHANGED << last_filename, dirs, files >>

\* Another program puts a file into a Save Directory.
ExternalCreateFile ==
  \E d \in dirs, n \in ForeignNames :
    /\ (d \o FUSE_DIR_SEP_STR \o n) \notin DOMAIN files
    /\ Cardinality(DOMAIN files) < MaxFiles
    /\ files' = [f \in DOMAIN files \cup {d \o FUSE_DIR_SEP_STR \o n} |->
                   IF f \in DOMAIN files THEN files[f] ELSE JunkContent]
    /\ Env
    /\ UNCHANGED << last_filename, od_quicksave_slot, dirs >>

\* A file is deleted behind the module's back.
ExternalDeleteFile ==
  \E g \in DOMAIN files :
    /\ files' = [f \in DOMAIN files \ {g} |-> files[f]]
    /\ Env
    /\ UNCHANGED << last_filename, od_quicksave_slot, dirs >>

\* An empty Save Directory is removed.
ExternalRemoveDir ==
  \E d \in dirs :
    /\ DirEntries(d) = {}
    /\ dirs' = dirs \ {d}
    /\ Env
    /\ UNCHANGED << last_filename, od_quicksave_slot, files >>

(***************************************************************************)
(* The module in its host.                                                 *)
(***************************************************************************)
NoFiles == [f \in {} |-> JunkContent]

Init ==
  /\ last_filename = NULL
  /\ cfgdir \in { NULL, ConfigPath }
  /\ od_quicksave_per_machine \in BOOLEAN
  /\ od_quicksave_slot = 0
  /\ od_quicksave_format = << ".", "s", "z", "x" >>
  /\ dirs = {}
  /\ files = NoFiles
  /\ last_check_directory = NULL
  /\ last_check_directory_result = 0
  /\ fuse_emulation_paused = 0
  /\ call = NoCall
  /\ screen = NULL
  /\ arg = NULL
  /\ trueFor = NULL

\* The savestate I/O wrapper in its host.
Next ==
  \/ QuicksaveSave
  \/ QuicksaveLoad
  \/ SavestateRead
  \/ SavestateWrite
  \/ QuicksaveCreateDir
  \/ OpenProgram
  \/ SelectSlot
  \/ ExternalCreateFile
  \/ ExternalDeleteFile
  \/ ExternalRemoveDir

Spec == Init /\ [][Next]_vars

\* The directory existence cache in its host: saves are made to the default
\* slot, files and directories come and go, programs are opened.
NextCache ==
  \/ CheckAnySavestateExist
  \/ QuicksaveSave
  \/ OpenProgram
  \/ ExternalCreateFile
  \/ ExternalDeleteFile
  \/ ExternalRemoveDir

SpecCache == Init /\ [][NextCache]_vars

(***************************************************************************)
(* The thumbnail extractor on the Save Files it can meet.                  *)
(***************************************************************************)
\* The menu asks for the thumbnail of the slot named by arg.
SavestateGetScreenForSlot ==
  \E io \in ScreenIO :
    LET r == savestate_get_screen_for_slot(atoi(arg), io)
    IN  /\ arg # NULL
        /\ screen' = r.screen
        /\ call' = Call("savestate_get_screen_for_slot", arg,
                        r.ret, r.trace, r.leak)
        /\ arg' = NULL
        /\ UNCHANGED << last_filename, cfgdir, od_quicksave_per_machine,
                        od_quicksave_slot, od_quicksave_format, dirs, files,
                        last_check_directory, last_check_directory_result,
                        fuse_emulation_paused, trueFor >>

OtherDir == << "c", "f", "g", "/", "s", "a", "v", "e", "s", "t", "a", "t", "e", "s", "/", "O", "t", "h", "e", "r" >>

Slot0File == OtherDir \o FUSE_DIR_SEP_STR \o << "0", "0", ".", "s", "z", "x" >>

InitScreen ==
  /\ cfgdir = ConfigPath
  /\ od_quicksave_per_machine = FALSE
  /\ od_quicksave_slot = 0
  /\ od_quicksave_format = << ".", "s", "z", "x" >>
  /\ \/ last_filename = NULL /\ dirs = {} /\ files = NoFiles
     \/ /\ last_filename = OtherProgram
        /\ dirs = {OtherDir}
        /\ \/ files = NoFiles
           \/ \E c \in Snapshots \cup {JunkContent} :
                files = [f \in {Slot0File} |-> c]
  /\ last_check_directory = NULL
  /\ last_check_directory_result = 0
  /\ fuse_emulation_paused = 0
  /\ call = NoCall
  /\ screen = NULL
  /\ arg \in { Fmt02d(n) : n \in 0..MaxSlot }
  /\ trueFor = NULL

NextScreen == SavestateGetScreenForSlot

SpecScreen == InitScreen /\ [][NextScreen]_vars

(***************************************************************************)
(* The validator on candidate names, for the configurable extensions.      *)
(***************************************************************************)
NameChars == { "0", "z", ".", "/" }

Names == UNION { [1..n -> NameChars] : n \in 0..MaxNameLen }

\* Quicksave extensions of three and of four characters.
Formats == { << ".", "z", "z" >>, << ".", "z", "z", "z" >> }

IsSavestateName ==
  /\ call' = Call("is_savestate_name", arg,
                  IF is_savestate_name(arg) THEN 1 ELSE 0, << >>, 0)
  /\ UNCHANGED << last_filename, cfgdir, od_quicksave_per_machine,
                  od_quicksave_slot, od_quicksave_format, dirs, files,
                  last_check_directory, last_check_directory_result,
                  fuse_emulation_paused, screen, arg, trueFor >>

InitName ==
  /\ arg \in Names
  /\ od_quicksave_format \in Formats
  /\ last_filename = NULL
  /\ cfgdir = ConfigPath
  /\ od_quicksave_per_machine = FALSE
  /\ od_quicksave_slot = 0
  /\ dirs = {}
  /\ files = NoFiles
  /\ last_check_directory = NULL
  /\ last_check_directory_result = 0
  /\ fuse_emulation_paused = 0
  /\ call = NoCall
  /\ screen = NULL
  /\ trueFor = NULL

NextName == IsSavestateName

SpecName == InitName /\ [][NextName]_vars

(***************************************************************************)
(* The scanner on directory listings, with the validator as predicate.     *)
(***************************************************************************)
ScanNames ==
  { << "0", "0", ".", "s", "z", "x" >>, << "4", "2", ".", "s", "z", "x" >>,
    << "0", "x", ".", "s", "z", "x" >>, << "n", "o", "t", "e", "s" >>,
    << "0", "0", ".", "s", "n", "a" >> }

ScanDirectoryForSavestates ==
  \E io \in ScanIO(arg) :
    LET r == scan_directory_for_savestates(arg, is_savestate_name_fn(io), io)
    IN  /\ call' = Call("scan_directory_for_savestates", arg, r.ret, r.trace, 0)
        /\ UNCHANGED << last_filename, cfgdir, od_quicksave_per_machine,
                        od_quicksave_slot, od_quicksave_format, dirs, files,
                        last_check_directory, last_check_directory_result,
                        fuse_emulation_paused, screen, arg, trueFor >>

InitScan ==
  /\ arg \in { NULL, OtherDir }
  /\ \/ dirs = {} /\ files = NoFiles
     \/ /\ dirs = {OtherDir}
        /\ \E listing \in SUBSET ScanNames :
             /\ Cardinality(listing) <= MaxEntries
             /\ files = [f \in { OtherDir \o FUSE_DIR_SEP_STR \o n : n \in listing }
                           |-> JunkContent]
  /\ od_quicksave_format = << ".", "s", "z", "x" >>
  /\ last_filename = NULL
  /\ cfgdir = ConfigPath
  /\ od_quicksave_per_machine = FALSE
  /\ od_quicksave_slot = 0
  /\ last_check_directory = NULL
  /\ last_check_directory_result = 0
  /\ fuse_emulation_paused = 0
  /\ call = NoCall
  /\ screen = NULL
  /\ trueFor = NULL

NextScan == ScanDirectoryForSavestates

SpecScan == InitScan /\ [][NextScan]_vars

(***************************************************************************)
(* The operations that open directories and files, on a Save Directory     *)
(* with Save Files and foreign files in it.                                *)
(***************************************************************************)
\* The menu asks when the Save File of a slot was last changed.
GetSavestateLastChange ==
  \E slot \in 0..MaxSlot, io \in LastChangeIO :
    LET r == get_savestate_last_change(slot, io)
    IN  /\ call' = Call("get_savestate_last_change", Fmt02d(slot),
                        r.ret, r.trace, r.leak)
        /\ UNCHANGED << last_filename, cfgdir, od_quicksave_per_machine,
                        od_quicksave_slot, od_quicksave_format, dirs, files,
                        last_check_directory, last_check_directory_result,
                        fuse_emulation_paused, screen, arg, trueFor >>

\* What a Save Directory can hold: Save Files of slot 0 and foreign files.
HandleNames ==
  { << "0", "0", ".", "s", "z", "x" >>, << "0", "x", ".", "s", "z", "x" >>,
    << "n", "o", "t", "e", "s" >> }

\* A listing gives each name its content: only a Save File can be a snapshot.
HandleListings ==
  { l \in UNION { [n -> { CurrentSnap, JunkContent }] :
                    n \in { m \in SUBSET HandleNames : Cardinality(m) <= MaxEntries } } :
      \A n \in DOMAIN l : l[n] = CurrentSnap => is_savestate_name_for(n, << ".", "s", "z", "x" >>) }

InitHandles ==
  /\ last_filename = OtherProgram
  /\ cfgdir = ConfigPath
  /\ od_quicksave_per_machine = FALSE
  /\ od_quicksave_slot = 0
  /\ od_quicksave_format = << ".", "s", "z", "x" >>
  /\ \/ dirs = {} /\ files = NoFiles
     \/ /\ dirs = {OtherDir}
        /\ \E l \in HandleListings :
             files = [f \in { OtherDir \o FUSE_DIR_SEP_STR \o n : n \in DOMAIN l } |->
                        l[SubSeq(f, Len(OtherDir) + 2, Len(f))]]
  /\ last_check_directory = NULL
  /\ last_check_directory_result = 0
  /\ fuse_emulation_paused = 0
  /\ call = NoCall
  /\ screen = NULL
  /\ arg \in { Fmt02d(n) : n \in 0..MaxSlot }
  /\ trueFor = NULL

NextHandles ==
  \/ CheckAnySavestateExist
  \/ SavestateGetScreenForSlot
  \/ GetSavestateLastChange

SpecHandles == InitHandles /\ [][NextHandles]_vars

(***************************************************************************)
(* The resolver on the programs the host can open, and the saves and loads *)
(* that use the paths it returns.                                          *)
(***************************************************************************)
QuicksaveGetCurrentProgram ==
  /\ call' = Call("quicksave_get_current_program", NULL,
                  quicksave_get_current_program, << >>, 0)
  /\ UNCHANGED << last_filename, cfgdir, od_quicksave_per_machine,
                  od_quicksave_slot, od_quicksave_format, dirs, files,
                  last_check_directory, last_check_directory_result,
                  fuse_emulation_paused, screen, arg, trueFor >>

QuicksaveGetCurrentDir ==
  /\ call' = Call("quicksave_get_current_dir", NULL,
                  quicksave_get_current_dir, << >>, 0)
  /\ UNCHANGED << last_filename, cfgdir, od_quicksave_per_machine,
                  od_quicksave_slot, od_quicksave_format, dirs, files,
                  last_check_directory, last_check_directory_result,
                  fuse_emulation_paused, screen, arg, trueFor >>

QuicksaveGetFilename ==
  \E slot \in 0..MaxSlotNumber :
    /\ call' = Call("quicksave_get_filename", slot,
                    quicksave_get_filename(slot), << >>, 0)
    /\ UNCHANGED << last_filename, cfgdir, od_quicksave_per_machine,
                    od_quicksave_slot, od_quicksave_format, dirs, files,
                    last_check_directory, last_check_directory_result,
                    fuse_emulation_paused, screen, arg, trueFor >>

InitPath ==
  /\ last_filename \in { NULL } \cup ProgramNames
  /\ cfgdir \in { NULL, ConfigPath }
  /\ od_quicksave_per_machine \in BOOLEAN
  /\ od_quicksave_slot = 0
  /\ od_quicksave_format = << ".", "s", "z", "x" >>
  /\ dirs = {}
  /\ files = NoFiles
  /\ last_check_directory = NULL
  /\ last_check_directory_result = 0
  /\ fuse_emulation_paused = 0
  /\ call = NoCall
  /\ screen = NULL
  /\ arg = NULL
  /\ trueFor = NULL

NextPath ==
  \/ QuicksaveGetCurrentProgram
  \/ QuicksaveGetCurrentDir
  \/ QuicksaveGetFilename
  \/ QuicksaveSave
  \/ QuicksaveLoad

SpecPath == InitPath /\ [][NextPath]_vars

(***************************************************************************)
(* Every operation of the module while no program is loaded or no config   *)
(* root is available.                                                      *)
(***************************************************************************)
Pure(o, a, r) ==
  /\ call' = Call(o, a, r, << >>, 0)
  /\ UNCHANGED << last_filename, cfgdir, od_quicksave_per_machine,
                  od_quicksave_slot, od_quicksave_format, dirs, files,
                  last_check_directory, last_check_directory_result,
                  fuse_emulation_paused, screen, arg, trueFor >>

QuicksaveGetLabel ==
  \E slot \in 0..MaxSlot :
    Pure("quicksave_get_label", slot, quicksave_get_label(slot))

CheckCurrentSavestateExist ==
  \E slot \in 0..MaxSlot :
    Pure("check_current_savestate_exist", slot,
         check_current_savestate_exist(slot))

CheckCurrentSavestateExistSavename ==
  \E savename \in SavestateArgs :
    Pure("check_current_savestate_exist_savename", savename,
         check_current_savestate_exist_savename(savename))

CheckIfSavestatePossible ==
  Pure("check_if_savestate_possible", NULL, check_if_savestate_possible)

\* The resolver asked for the path of a slot the menu shows.
QuicksaveGetFilenameOfSlot ==
  \E slot \in 0..MaxSlot :
    Pure("quicksave_get_filename", slot, quicksave_get_filename(slot))

InitUnconfigured ==
  /\ \/ last_filename = NULL /\ cfgdir \in { NULL, ConfigPath }
     \/ last_filename \in LastFilenames /\ cfgdir = NULL
  /\ od_quicksave_per_machine \in BOOLEAN
  /\ od_quicksave_slot = 0
  /\ od_quicksave_format = << ".", "s", "z", "x" >>
  /\ dirs = {}
  /\ files = NoFiles
  /\ last_check_directory = NULL
  /\ last_check_directory_result = 0
  /\ fuse_emulation_paused = 0
  /\ call = NoCall
  /\ screen = NULL
  /\ arg \in { Fmt02d(n) : n \in 0..MaxSlot }
  /\ trueFor = NULL

NextUnconfigured ==
  \/ QuicksaveGetCurrentProgram
  \/ QuicksaveGetCurrentDir
  \/ QuicksaveGetFilenameOfSlot
  \/ QuicksaveGetLabel
  \/ QuicksaveCreateDir
  \/ CheckCurrentSavestateExist
  \/ CheckCurrentSavestateExistSavename
  \/ CheckAnySavestateExist
  \/ CheckIfSavestatePossible
  \/ GetSavestateLastChange
  \/ SavestateGetScreenForSlot
  \/ QuicksaveSave
  \/ QuicksaveLoad
  \/ SavestateRead
  \/ SavestateWrite

SpecUnconfigured == InitUnconfigured /\ [][NextUnconfigured]_vars

(***************************************************************************)
(* Properties of the directory existence cache (under SpecCache).          *)
(***************************************************************************)
\* No system call of the trace reported a failure.
NoIoFault(trace) ==
  \A i \in 1..Len(trace) :
    trace[i].res \notin { "fail", "error", "COMPAT_DIR_RESULT_ERROR" }

\* The directory holds an entry the slot-file validator accepts.
HasSlotFile(dir) == \E n \in DirEntries(dir) : is_savestate_name(n)

IsCheckAny == call.op = "check_any_savestate_exist"

\* The call was answered from a sticky true for the directory it resolved.
AnsweredFromSticky == call.lcd0 = call.dir /\ call.lcdr0 = 1

\* C1: a call of check_any_savestate_exist whose Save Directory exists and
\* which is not answered from a sticky true for that path scans the directory
\* in that same call and returns true iff the directory holds a valid slot
\* file, and the cached path is then the resolved directory.
C1_FreshCheckScans ==
  ( /\ IsCheckAny
    /\ call.dir # NULL
    /\ call.dir \in dirs
    /\ ~AnsweredFromSticky
    /\ NoIoFault(call.trace) )
  => /\ Has(call.trace, "compat_opendir")
     /\ (call.ret = 1 <=> HasSlotFile(call.dir))
     /\ last_check_directory = call.dir

\* C2: once check_any_savestate_exist has returned true for a directory and
\* no call has resolved to a different directory since, a call that resolves
\* to that directory while it exists returns true and does not scan it.
C2_StickyPositive ==
  [][ ( /\ call'.op = "check_any_savestate_exist"
        /\ call'.dir # NULL
        /\ call'.dir = trueFor
        /\ call'.dir \in dirs' )
      => ( /\ call'.ret = 1
           /\ ~Has(call'.trace, "compat_opendir")
           /\ ~Has(call'.trace, "compat_readdir") ) ]_vars

\* C2 witness: the cache answers true for an existing directory that holds
\* no slot file any more.
C2_Witness ==
  /\ IsCheckAny
  /\ call.ret = 1
  /\ call.dir \in dirs
  /\ trueFor = call.dir
  /\ AnsweredFromSticky
  /\ ~HasSlotFile(call.dir)

\* The Save Directory of the call was absent, or stat reported it not found.
DirAbsentOrNotFound ==
  \/ call.dir = NULL
  \/ \E i \in 1..Len(call.trace) :
       call.trace[i].ev = "stat" /\ call.trace[i].res = "ENOENT"

\* C9: a call of check_any_savestate_exist whose Save Directory is absent or
\* not found on disk returns false and leaves both cache fields as they were.
C9_AbsentLeavesCache ==
  (IsCheckAny /\ DirAbsentOrNotFound)
  => /\ call.ret = 0
     /\ last_check_directory = call.lcd0
     /\ last_check_directory_result = call.lcdr0

\* C9 witness: such a call made while the cache holds a sticky true.
C9_Witness ==
  /\ IsCheckAny
  /\ DirAbsentOrNotFound
  /\ call.lcd0 # NULL
  /\ call.lcdr0 = 1
  /\ last_check_directory_result = 1

\* The trace shows a scan of directory d that read an entry the slot-file
\* validator accepts.
ScanFound(trace, d) ==
  \E o \in At(trace, "compat_opendir"), r \in At(trace, "compat_readdir") :
    /\ trace[o].arg = d
    /\ trace[o].res = "ok"
    /\ o < r
    /\ trace[r].res = "COMPAT_DIR_RESULT_OK"
    /\ is_savestate_name(trace[r].arg)

\* C19: the cached result is true only if it was true for the same cached
\* path before the step, or the step is a call that scanned the directory
\* that already was the cached path and found a valid slot file in it; and a
\* call returns true only for the directory that then is the cached path.
\* The cached result being false initially, a true result thus always stems
\* from a scan of the cached path made after it became the cached path.
C19_NoCarryOver ==
  [][ /\ last_check_directory_result' = 1 =>
           \/ /\ last_check_directory' = last_check_directory
              /\ last_check_directory_result = 1
           \/ /\ call'.op = "check_any_savestate_exist"
              /\ last_check_directory' = last_check_directory
              /\ ScanFound(call'.trace, last_check_directory')
      /\ (call'.op = "check_any_savestate_exist" /\ call'.ret = 1)
           => (call'.dir = last_check_directory' /\ last_check_directory_result' = 1)
    ]_vars

\* C19 witness: a call made after a switch to another program whose Save
\* Directory exists, while the cache held true for the previous directory:
\* it returned false and the cache now holds the new path with false.
C19_Witness ==
  /\ IsCheckAny
  /\ call.lcdr0 = 1
  /\ call.lcd0 # call.dir
  /\ call.dir \in dirs
  /\ call.ret = 0
  /\ last_check_directory = call.dir
  /\ last_check_directory_result = 0

(***************************************************************************)
(* Properties of the savestate I/O wrapper (under Spec).                   *)
(***************************************************************************)
\* The call is a load of a slot, named by number or by a path-like string.
IsSlotLoad ==
  \/ call.op = "quicksave_load"
  \/ call.op = "savestate_read" /\ call.arg0 # NULL

\* C3: loading a slot whose Save File does not exist returns 0 and does not
\* call utils_open_file, for quicksave_load and for savestate_read alike.
C3_LoadMissingIsNoOp ==
  ( /\ IsSlotLoad
    /\ quicksave_get_filename(od_quicksave_slot) # NULL
    /\ ~compat_file_exists(quicksave_get_filename(od_quicksave_slot)) )
  => (call.ret = 0 /\ ~Has(call.trace, "utils_open_file"))

\* C7: a call of quicksave_save or quicksave_load that pauses emulation
\* resumes it exactly once, after the pause; its snapshot write or program
\* open lies strictly between the two; between calls emulation is as paused
\* as it was at the start.
C7_PauseResumeBracket ==
  /\ fuse_emulation_paused = 0
  /\ call.op \in { "quicksave_save", "quicksave_load" } =>
       /\ Count(call.trace, "fuse_emulation_pause") <= 1
       /\ Count(call.trace, "fuse_emulation_unpause")
            = Count(call.trace, "fuse_emulation_pause")
       /\ \A p \in At(call.trace, "fuse_emulation_pause"),
             u \in At(call.trace, "fuse_emulation_unpause") : p < u
       /\ \A i \in At(call.trace, "snapshot_write")
                     \cup At(call.trace, "utils_open_file") :
            /\ \E p \in At(call.trace, "fuse_emulation_pause") : p < i
            /\ \E u \in At(call.trace, "fuse_emulation_unpause") : i < u

\* C7 witness: a load that paused emulation and then failed.
C7_Witness ==
  /\ call.op = "quicksave_load"
  /\ call.ret # 0
  /\ Has(call.trace, "fuse_emulation_pause")
  /\ Has(call.trace, "utils_open_file")

\* C10: every block an operation allocated and neither handed to its caller
\* nor kept as the cache entry is freed when the operation returns.
C10_NoLeak == call.leak = 0

(***************************************************************************)
(* Properties of the thumbnail extractor (under SpecScreen).               *)
(***************************************************************************)
IsGetScreen == call.op = "savestate_get_screen_for_slot"

\* The Save File of the slot the extractor was called for.
ScreenFile == quicksave_get_filename(atoi(call.arg0))

\* libspectrum_snap_read accepted the file.
Parsed ==
  \E i \in 1..Len(call.trace) :
    call.trace[i].ev = "libspectrum_snap_read" /\ call.trace[i].res = "ok"

\* The machines with a 128K-style paging register.
PagingFamily ==
  { "LIBSPECTRUM_MACHINE_PENT", "LIBSPECTRUM_MACHINE_PENT512",
    "LIBSPECTRUM_MACHINE_PENT1024", "LIBSPECTRUM_MACHINE_SCORP",
    "LIBSPECTRUM_MACHINE_PLUS2", "LIBSPECTRUM_MACHINE_PLUS2A",
    "LIBSPECTRUM_MACHINE_PLUS3", "LIBSPECTRUM_MACHINE_PLUS3E",
    "LIBSPECTRUM_MACHINE_128", "LIBSPECTRUM_MACHINE_128E",
    "LIBSPECTRUM_MACHINE_SE" }

\* Bit 3 of a byte.
Bit3(b) == (b % 16) >= 8

\* The first 6912 bytes of a page of the parsed file.
FirstBytesOfPage(page) ==
  LET bytes == libspectrum_snap_pages(files[ScreenFile], page)
  IN  [i \in 1..6912 |-> bytes[i]]

\* C5: for a successfully parsed snapshot the result is the first 6912 bytes
\* of page 7 if the machine is of the paging family and bit 3 of the paging
\* register is set, and the first 6912 bytes of page 5 otherwise.
C5_ScreenPage ==
  (IsGetScreen /\ Parsed)
  => screen = IF /\ files[ScreenFile].machine \in PagingFamily
                 /\ Bit3(files[ScreenFile].out_128_memoryport)
              THEN FirstBytesOfPage(7)
              ELSE FirstBytesOfPage(5)

\* C5 witness: a parsed 128K-family snapshot with bit 3 set and other bits
\* clear, whose thumbnail is page 7 and differs from page 5.
C5_Witness ==
  /\ IsGetScreen
  /\ Parsed
  /\ files[ScreenFile].machine = "LIBSPECTRUM_MACHINE_PLUS2"
  /\ files[ScreenFile].out_128_memoryport = 8
  /\ screen = FirstBytesOfPage(7)
  /\ screen # FirstBytesOfPage(5)

\* C6: the extractor hands back a buffer of 6912 bytes, allocated and zeroed
\* before anything else; when the path is unresolved, the file is missing or
\* reading or parsing fails, every byte is zero and the snapshot object has
\* been released.
C6_BlankOnFailure ==
  IsGetScreen =>
    /\ Len(screen) = 6912
    /\ call.trace[1].ev = "libspectrum_new"
    /\ call.trace[2].ev = "memset"
    /\ ~Parsed =>
         /\ screen = [i \in 1..6912 |-> 0]
         /\ call.ret # 0
         /\ Count(call.trace, "libspectrum_snap_alloc") = 1
         /\ Count(call.trace, "libspectrum_snap_free") = 1
         /\ ~Has(call.trace, "memcpy")

\* C6 witness: a Save File that exists and is no snapshot.
C6_Witness ==
  /\ IsGetScreen
  /\ Has(call.trace, "libspectrum_snap_read")
  /\ ~Parsed
  /\ Len(screen) = 6912
  /\ screen[1] = 0

(***************************************************************************)
(* Properties of the validator (under SpecName).                           *)
(***************************************************************************)
\* Two ASCII digits followed by exactly the extension.
SlotFileShape(base, extension) ==
  /\ Len(base) = 2 + Len(extension)
  /\ isdigit(base[1])
  /\ isdigit(base[2])
  /\ SubSeq(base, 3, Len(base)) = extension

\* C4: for an extension of 3 or 4 characters, is_savestate_name accepts a
\* name iff its base name is two digits followed by exactly the extension.
C4_ValidatorExact ==
  (call.op = "is_savestate_name" /\ Len(od_quicksave_format) \in {3, 4})
  => (call.ret = 1
        <=> SlotFileShape(utils_last_filename(call.arg0, FALSE),
                          od_quicksave_format))

(***************************************************************************)
(* Properties of the scanner (under SpecScan).                             *)
(***************************************************************************)
IsScan == call.op = "scan_directory_for_savestates"

\* The reads that returned an entry the predicate accepts.
Matches ==
  { i \in At(call.trace, "compat_readdir") :
      /\ call.trace[i].res = "COMPAT_DIR_RESULT_OK"
      /\ is_savestate_name(call.trace[i].arg) }

\* No entry is read after one that matched.
StopsAtFirstMatch ==
  \A m \in Matches, i \in At(call.trace, "compat_readdir") : i <= m

ClosedWithoutError ==
  \E i \in At(call.trace, "compat_closedir") : call.trace[i].res = "ok"

\* C8 as stated: the scan returns true as soon as an entry satisfies the
\* predicate, reading no further entry, and false in every other case.
C8_ScanAsStated ==
  IsScan => /\ call.ret = 1 <=> Matches # {}
            /\ StopsAtFirstMatch

\* C8 amended: the scan reads no entry after the first that satisfies the
\* predicate, and returns true iff an entry satisfied it and the directory
\* was closed without error.
C8_ScanAmended ==
  IsScan => /\ call.ret = 1 <=> (Matches # {} /\ ClosedWithoutError)
            /\ StopsAtFirstMatch
            /\ call.ret \in {0, 1}

\* C8 witness: a scan that returned true and left entries unread.
C8_Witness ==
  /\ IsScan
  /\ call.ret = 1
  /\ Count(call.trace, "compat_readdir") < Cardinality(DirEntries(call.arg0))

(***************************************************************************)
(* Properties of the handles (under SpecHandles).                          *)
(***************************************************************************)
\* The calls that open a handle, each with the call that closes it.
HandlePairs ==
  { [open |-> "compat_opendir",   close |-> "compat_closedir"],
    [open |-> "utils_read_file",  close |-> "utils_close_file"],
    [open |-> "compat_file_open", close |-> "compat_file_close"] }

\* The positions in the call's trace at which a handle was obtained.
Opened(pair) ==
  { i \in At(call.trace, pair.open) : call.trace[i].res = "ok" }

\* C11: every directory handle and file handle an operation opened is closed
\* exactly once, after it was opened and before the operation returns, and
\* nothing is closed that was not opened.
C11_HandlesClosed ==
  \A pair \in HandlePairs :
    /\ Cardinality(Opened(pair)) <= 1
    /\ Cardinality(At(call.trace, pair.close)) = Cardinality(Opened(pair))
    /\ \A i \in Opened(pair), j \in At(call.trace, pair.close) :
         i < j /\ call.trace[j].arg = call.trace[i].arg

\* C11 witness: a scan whose enumeration reported an error after the
\* directory had been opened.
C11_Witness ==
  /\ IsCheckAny
  /\ Opened([open |-> "compat_opendir", close |-> "compat_closedir"]) # {}
  /\ \E i \in At(call.trace, "compat_readdir") :
       call.trace[i].res = "COMPAT_DIR_RESULT_ERROR"

(***************************************************************************)
(* Properties of failing saves (under Spec).                               *)
(***************************************************************************)
IsSave == call.op \in { "quicksave_save", "savestate_write" }

\* The positions in the call's trace of the system calls that failed.
Failed(name) ==
  { i \in At(call.trace, name) : call.trace[i].res \in { "fail", "error" } }

\* The save failed because of an I/O failure.
SaveIoFailure ==
  /\ IsSave
  /\ call.ret # 0
  /\ Failed("stat") \cup Failed("compat_createdir") \cup Failed("snapshot_write") # {}

\* No step of the save was tried a second time.
NotRetried ==
  /\ Count(call.trace, "stat") <= 1
  /\ Count(call.trace, "compat_createdir") <= 1
  /\ Count(call.trace, "snapshot_write") <= 1

DirConfirmedBefore(i) ==
  \E j \in 1..(i - 1) :
    /\ call.trace[j].arg = call.dir
    /\ call.trace[j].res = "ok"
    /\ \/ call.trace[j].ev = "stat"
       \/ /\ call.trace[j].ev = "compat_createdir"
          /\ \E k \in 1..(j - 1) :
               call.trace[k].ev = "stat" /\ call.trace[k].res = "ENOENT"

\* C17: a save invokes the snapshot writer only after the Save File path is
\* resolved and the Save Directory is confirmed to exist or created, and with
\* exactly that path; when the path is unresolved, stat fails otherwise than
\* with not-found, or the directory cannot be created, the save fails and the
\* writer is not invoked.
C17_WriteAfterDir ==
  IsSave =>
    /\ \A i \in At(call.trace, "snapshot_write") :
         /\ quicksave_get_filename(od_quicksave_slot) # NULL
         /\ call.trace[i].arg = quicksave_get_filename(od_quicksave_slot)
         /\ DirConfirmedBefore(i)
    /\ ( \/ quicksave_get_filename(od_quicksave_slot) = NULL
         \/ Failed("stat") # {}
         \/ Failed("compat_createdir") # {} )
       => (call.ret # 0 /\ ~Has(call.trace, "snapshot_write"))

\* C17 witness: a save that found no Save Directory, created it and wrote the
\* snapshot.
C17_Witness ==
  /\ IsSave
  /\ call.ret = 0
  /\ \E k \in At(call.trace, "stat") : call.trace[k].res = "ENOENT"
  /\ \E i \in At(call.trace, "snapshot_write") : DirConfirmedBefore(i)

\* The positions of the call's trace at which emulation is paused by the
\* call itself.
PausedAt(i) ==
  Cardinality({ p \in At(call.trace, "fuse_emulation_pause") : p < i })
    > Cardinality({ u \in At(call.trace, "fuse_emulation_unpause") : u < i })

\* C18: every snapshot write and every slot load of the module runs while
\* the module has emulation paused, in quicksave_save and quicksave_load and
\* in savestate_write and savestate_read alike.
C18_AlwaysPaused ==
  \A i \in At(call.trace, "snapshot_write") \cup At(call.trace, "utils_open_file") :
    PausedAt(i)

(***************************************************************************)
(* Properties of the resolver and the sanitizer (under SpecPath).          *)
(***************************************************************************)
\* A program is loaded and a config root is available.
ConfigAvailable == last_filename # NULL /\ cfgdir # NULL

\* <config root>/savestates/[<machine name>/]<Program Identity>, composed in
\* full.
ComposedDir ==
  cfgdir \o << "/" >> \o Str_savestates \o << "/" >>
    \o (IF od_quicksave_per_machine THEN machine_name \o << "/" >> ELSE << >>)
    \o quicksave_get_current_program

\* The slot as two zero-padded decimal digits.
TwoDigits(n) == << Digits[(n \div 10) + 1], Digits[(n % 10) + 1] >>

\* <Save Directory>/<NN><extension>, composed in full.
ComposedFilename(n) ==
  ComposedDir \o << "/" >> \o TwoDigits(n) \o od_quicksave_format

\* The path does not fit into the platform's maximum path length.
TooLong(path) == Len(path) + 1 > PATH_MAX

\* The calls that operate on a path.
PathCalls ==
  { "stat", "compat_createdir", "snapshot_write", "utils_open_file" }

\* C13: when the composed Save Directory or Save File path exceeds the
\* maximum path length the resolver returns absent, and no operation works
\* on a path other than a Save Directory or Save File path composed in full.
C13_TooLongIsAbsent ==
  /\ ( /\ call.op = "quicksave_get_current_dir"
       /\ ConfigAvailable
       /\ TooLong(ComposedDir) ) => call.ret = NULL
  /\ ( /\ call.op = "quicksave_get_filename"
       /\ ConfigAvailable
       /\ TooLong(ComposedFilename(call.arg0)) ) => call.ret = NULL
  /\ call.op \in { "quicksave_save", "quicksave_load" } =>
       \A i \in 1..Len(call.trace) :
         call.trace[i].ev \in PathCalls =>
           call.trace[i].arg \in
             { ComposedDir, ComposedFilename(od_quicksave_slot) }

\* C14: for every slot in 0..99 quicksave_get_filename returns exactly
\* <config root>/savestates/[<machine name>/]<Program Identity>/<NN><extension>
\* with the machine name present iff the per-machine option is enabled, and
\* it returns absent iff no program is loaded or no config root is available.
C14_FilenameExact ==
  (call.op = "quicksave_get_filename" /\ call.arg0 \in 0..99) =>
    /\ call.ret = NULL <=> ~ConfigAvailable
    /\ ConfigAvailable => call.ret = ComposedFilename(call.arg0)

\* The Program Identity the sanitizer gives a file name.
IdentityOf(name) == compat_chop_expressions(utils_last_filename(name, TRUE))

\* C15: the media of one title, whose names differ only in a disk, tape, side
\* or part qualifier, all get the Program Identity quicksave_get_current_program
\* returns for the one that is loaded; with no program loaded it returns absent.
C15_SameIdentity ==
  call.op = "quicksave_get_current_program" =>
    /\ last_filename = NULL => call.ret = NULL
    /\ \A t \in Titles, q1 \in QualifierTexts, q2 \in QualifierTexts :
         last_filename = MediaName(t, q1)
           => call.ret = IdentityOf(MediaName(t, q2))

(***************************************************************************)
(* Properties of the module without configuration (under SpecUnconfigured).*)
(***************************************************************************)
\* No program is loaded or no config root is available.
ConfigUnavailable == last_filename = NULL \/ cfgdir = NULL

\* The operations that return a string, and those that return a truth value.
StringGetters ==
  { "quicksave_get_current_dir", "quicksave_get_current_program",
    "quicksave_get_filename", "quicksave_get_label",
    "get_savestate_last_change" }

Predicates ==
  { "check_current_savestate_exist", "check_current_savestate_exist_savename",
    "check_any_savestate_exist", "check_if_savestate_possible" }

\* The call reported nothing to the user, invoked neither the snapshot writer
\* nor the host's open-program routine, and created no directory.
Silent ==
  /\ ~Has(call.trace, "ui_error")
  /\ ~Has(call.trace, "snapshot_write")
  /\ ~Has(call.trace, "utils_open_file")
  /\ ~Has(call.trace, "compat_createdir")
  /\ dirs = {}
  /\ files = NoFiles

\* The operation yielded its absent, false or failure result; a load of the
\* default slot, which finds no Save File, returns 0 without loading.
SoftResult ==
  CASE call.op \in StringGetters -> call.ret = NULL
    [] call.op \in Predicates -> call.ret = 0
    [] call.op = "quicksave_load" -> call.ret = 0
    [] OTHER -> call.ret # 0

ProgramOnly == { "quicksave_get_current_program", "check_if_savestate_possible" }

====
